---- MODULE Spec2Model ----
(***************************************************************************)
(* Verification model of the calorie tracker's nutrition aggregation and   *)
(* snapshot engine: the unit converter (calculateMultiplier), the recipe   *)
(* graph (ingredients -> foods -> meals), the consumption log              *)
(* (user_consumption), the goals table (user_goals) and the daily history  *)
(* snapshots (daily_nutrition_snapshots) with the History page on top.     *)
(*                                                                         *)
(* Three specifications share the variables:                               *)
(*   SpecMult  the unit converter as a pure function of its inputs         *)
(*   SpecHist  goals, consumption log, history reconciliation, editing     *)
(*   SpecLog   recipe graph edits and meal logging                         *)
(*                                                                         *)
(* Numbers.  A JavaScript number / SQL DECIMAL is a rational [n, d] in     *)
(* lowest terms with d > 0; d = 0 encodes the non-finite results of a      *)
(* division by zero (n = 1: Infinity, n = -1: -Infinity, n = 0: NaN).      *)
(* JavaScript null / SQL NULL is the record NULL.  Floating point rounding *)
(* is not modelled.                                                        *)
(*                                                                         *)
(* Dates.  A calendar date is its day number; an instant is the pair       *)
(* (today, tod) of the UTC day and the time of day: tod = 0 at 00:00:00.000 *)
(* UTC exactly, tod = 1 later within the first hour, tod = 2 from 01:00 on. *)
(* The database session runs in UTC (CURRENT_DATE is the UTC day); a        *)
(* browser runs in the time zone of its user.  The audit columns            *)
(* created_at / updated_at are read by no code and are left out.            *)
(*                                                                         *)
(* Goals.  user_goals is the table SetGoalsModal writes (one row per save,  *)
(* is_active on the newest); History reads the goal values of the row its   *)
(* query returns, the column names of the two revisions being taken as      *)
(* the same four columns.                                                   *)
(***************************************************************************)
EXTENDS Integers, Sequences, FiniteSets, TLC

VARIABLES
    today,            \* current UTC calendar day (day number)
    tod,              \* time of day: 0 midnight exactly, 1 first hour, 2 later
    ingredients,      \* table ingredients: id -> row
    foods,            \* table foods: id -> row (stored totals + reference serving)
    food_ingredients, \* table food_ingredients: set of rows
    meals,            \* table meals: id -> row (stored totals)
    meal_foods,       \* table meal_foods: set of rows
    logs,             \* table user_consumption: set of rows
    nextLogId,        \* next fresh user_consumption id
    goals,            \* table user_goals: set of rows
    snaps,            \* table daily_nutrition_snapshots: set of rows
    shown,            \* History page: snapshots state, per user (sequence)
    editingId,        \* History page: editingId state, per user
    editValues,       \* History page: editValues state, per user
    efPage,           \* EditFood page state
    emPage,           \* EditMeal page state
    lmPage,           \* LogMeal page state
    afPage,           \* AddFood page state
    amPage,           \* AddMeal page state
    hist,             \* History tabs whose initializeHistory runs request by request
    sgModal,          \* SetGoalsModal of each tab whose handleSave runs request by request
    nOut,             \* food composer: the totals calculateNutrition returned
    mIn,              \* unit converter: the arguments of the call
    mOut,             \* unit converter: the values returned
    lastOp            \* the handler that ran last and its outcome

vars == <<today, tod, ingredients, foods, food_ingredients, meals, meal_foods,
          logs, nextLogId, goals, snaps, shown, editingId,
          editValues, efPage, emPage, lmPage, afPage, amPage, nOut,
          hist, sgModal, mIn, mOut, lastOp>>

----------------------------------------------------------------------------
(* Numbers *)

Abs(x) == IF x < 0 THEN 0 - x ELSE x

Sign(x) == IF x < 0 THEN 0 - 1 ELSE IF x > 0 THEN 1 ELSE 0

RECURSIVE GCD(_, _)
GCD(a, b) == IF b = 0 THEN a ELSE GCD(b, a % b)

\* n/d in lowest terms with a positive denominator; n/0 is non-finite
Norm(n, d) ==
    IF d = 0 THEN [n |-> Sign(n), d |-> 0]
    ELSE LET g == GCD(Abs(n), Abs(d))
         IN  [n |-> Sign(d) * Sign(n) * (Abs(n) \div g), d |-> Abs(d) \div g]

R(k) == [n |-> k, d |-> 1]

NULL == [n |-> 0, d |-> 0 - 1]

NaN == [n |-> 0, d |-> 0]

IsFinite(a) == a.d > 0

\* a + b
RAdd(a, b) ==
    IF a.d = 0 /\ b.d = 0
    THEN (IF a.n = b.n THEN a ELSE NaN)
    ELSE Norm(a.n * b.d + b.n * a.d, a.d * b.d)

\* a * b
RMul(a, b) == Norm(a.n * b.n, a.d * b.d)

\* a / b
RDiv(a, b) == Norm(a.n * b.d, a.d * b.n)

\* a > 0 (false for NaN and for null, which converts to 0)
RPos(a) == a.d >= 0 /\ a.n > 0

\* x || 0 : null, 0 and NaN are falsy
OrZero(x) == IF x = NULL \/ x.n = 0 THEN R(0) ELSE x

\* x > 0 ? x : null
PosOrNull(x) == IF RPos(x) THEN x ELSE NULL

----------------------------------------------------------------------------
(* Unit converter *)

\* the unit "G" read as "g": a comparison that ignores case
Lower(unit) == IF unit = "G" THEN "g" ELSE unit

\* a converter whose unit comparison ignores case
calculateMultiplier_IgnoreCase(quantity, unit, food) ==
    IF unit = "servings" THEN quantity
    ELSE IF Lower(unit) = Lower(food.reference_serving_unit)
         THEN RDiv(quantity, food.reference_serving_amount)
         ELSE quantity

\* EditMeal.calculateMultiplier(quantity, unit, food)
calculateMultiplier(quantity, unit, food) ==
    IF unit = "servings" THEN quantity
    ELSE IF unit = food.reference_serving_unit
         THEN RDiv(quantity, food.reference_serving_amount)
         ELSE quantity

\* a converter that never converts: the quantity is the multiplier
LogMeal_calculateMultiplier_NoConversion(quantity, unit, food) == quantity

\* LogMeal.calculateMultiplier(quantity, unit, food)
LogMeal_calculateMultiplier(quantity, unit, food) ==
    IF unit = "servings" THEN quantity
    ELSE IF unit = food.reference_serving_unit
         THEN RDiv(quantity, food.reference_serving_amount)
         ELSE quantity

----------------------------------------------------------------------------
(* Bounds and input domains *)

Today0 == 100          \* the day the model starts on
MaxAdvance == 1        \* days the clock may advance
MaxLogs == 2           \* user_consumption rows ever inserted
MaxGoalRows == 2       \* user_goals rows per user

Users == {"u1", "u2"}

\* the account whose goal, correction, deletion and recipe pages are exercised;
\* the other account logs entries and opens History
Editors == {"u1"}

Nutrients == {"calories", "protein", "carbs", "sugar", "fat", "fiber"}

Vec(c, p, cb, s, f, fb) ==
    [calories |-> c, protein |-> p, carbs |-> cb, sugar |-> s, fat |-> f, fiber |-> fb]

ZeroVec == Vec(R(0), R(0), R(0), R(0), R(0), R(0))

\* what the user types into the manual entry form of LogMeal
ManualChoices ==
    { Vec(R(500), R(30), R(50), NULL, R(20), R(3)) }

\* what the user types into SetGoalsModal
GoalChoices ==
    { [calories |-> R(1800), protein |-> R(120), carbs |-> R(200), fat |-> R(60)] }

\* what the user types into the edit inputs of a History card
EditChoices == { Vec(R(100), R(10), R(10), R(1), R(10), R(1)) }

\* the dates the user picks in the date input of LogMeal
LogDates == { Today0 - 90, Today0 - 6 }

\* the dates account u picks: the second account logs for the older date only
LogDatesOf(u) == IF u \in Editors THEN LogDates ELSE { Today0 - 90 }

\* the hours by which the UTC offset of the user's browser zone differs from
\* the offset the zone had 90 days earlier: -1 in a zone that has left daylight
\* saving time since, 0 in a zone without a change
UtcOffsetChange(u) == IF u = "u1" THEN 0 - 1 ELSE 0

----------------------------------------------------------------------------
(* History: constants of the code *)

LookbackDays == 90     \* createMissingSnapshots: ninetyDaysAgo
PurgeDays == 90        \* delete_old_nutrition_snapshots: INTERVAL '90 days'
EditWindowDays == 7    \* canEdit: diffDays <= 7

\* createMissingSnapshots: the goals used when user_goals yields no single row
DefaultGoals == Vec(R(2000), R(150), R(250), NULL, R(65), NULL)

----------------------------------------------------------------------------
(* Goals *)

\* user_goals rows of one user
GoalRows(u) == { g \in goals : g.user_id = u }

\* SetGoalsModal.handleSave: deactivate every goal row of the user, then insert
\* a new active row
handleSave_table(tbl, u, form, id) ==
    { [g EXCEPT !.is_active = IF g.user_id = u THEN FALSE ELSE g.is_active] : g \in tbl }
        \cup { [id |-> id, user_id |-> u, calories |-> form.calories,
                protein |-> form.protein, carbs |-> form.carbs, fat |-> form.fat,
                is_active |-> TRUE] }

\* createMissingSnapshots: .from('user_goals').select('*').eq('user_id').single()
\* yields a row only when exactly one row matches; the row has no sugar and
\* fiber columns
currentGoals(u) ==
    IF Cardinality(GoalRows(u)) = 1
    THEN LET g == CHOOSE r \in GoalRows(u) : TRUE
         IN  Vec(g.calories, g.protein, g.carbs, NULL, g.fat, NULL)
    ELSE DefaultGoals

----------------------------------------------------------------------------
(* History: reconciliation *)

\* the purge, were it to delete the rows that are exactly 90 days old as well
delete_old_nutrition_snapshots_Inclusive(tbl, now) ==
    { s \in tbl : ~(s.log_date <= now - PurgeDays) }

\* delete_old_nutrition_snapshots(): every user's rows older than 90 days
delete_old_nutrition_snapshots(tbl, now) ==
    { s \in tbl : ~(s.log_date < now - PurgeDays) }

\* createMissingSnapshots: ninetyDaysAgoStr.  setDate(getDate() - 90) keeps the
\* local wall-clock time 90 local days back, so the instant lies 90 days back
\* plus the change of the zone's UTC offset; toISOString() gives the UTC date
\* of that instant, which is one day earlier when the instant falls before
\* 00:00 UTC
ninetyDaysAgo(u, now) ==
    IF UtcOffsetChange(u) < 0 /\ tod \in {0, 1}
    THEN now - LookbackDays - 1
    ELSE now - LookbackDays

\* createMissingSnapshots: uniqueDates
uniqueDates(u, now) ==
    { l.consumed_date : l \in { x \in logs : x.user_id = u /\ x.consumed_date >= ninetyDaysAgo(u, now) } }

\* createMissingSnapshots: dayConsumption
dayConsumption(u, date) == { l \in logs : l.user_id = u /\ l.consumed_date = date }

\* createMissingSnapshots: totals, summed over the entries of the day
RECURSIVE SumEntries(_)
SumEntries(S) ==
    IF S = {} THEN ZeroVec
    ELSE LET e == CHOOSE x \in S : TRUE
             rest == SumEntries(S \ {e})
         IN  [k \in Nutrients |-> RAdd(rest[k], OrZero(e[k]))]

\* a fresh UUID: an id no row and no page holds
FreshSnapId(tbl) ==
    LET used == { s.id : s \in tbl }
                   \cup { editingId[u] : u \in Users }
                   \cup UNION { { shown[u][i].id : i \in 1..Len(shown[u]) } : u \in Users }
    IN  CHOOSE i \in 1..(Cardinality(used) + 1) : i \notin used

\* an upsert that adds the new totals to the stored ones on conflict
upsert_Accumulate(tbl, u, date, goal, consumed) ==
    IF \E s \in tbl : s.user_id = u /\ s.log_date = date
    THEN { IF s.user_id = u /\ s.log_date = date
           THEN [s EXCEPT !.goal = goal,
                          !.consumed = [k \in Nutrients |-> RAdd(s.consumed[k], consumed[k])]]
           ELSE s : s \in tbl }
    ELSE tbl \cup { [id |-> FreshSnapId(tbl), user_id |-> u, log_date |-> date,
                     goal |-> goal, consumed |-> consumed] }

\* a plain insert, with no conflict target
upsert_AlwaysInsert(tbl, u, date, goal, consumed) ==
    tbl \cup { [id |-> FreshSnapId(tbl), user_id |-> u, log_date |-> date,
                 goal |-> goal, consumed |-> consumed] }

\* the upsert, were it to leave a row that exists as it is (ignoreDuplicates)
upsert_IgnoreDuplicates(tbl, u, date, goal, consumed) ==
    IF \E s \in tbl : s.user_id = u /\ s.log_date = date
    THEN tbl
    ELSE tbl \cup { [id |-> FreshSnapId(tbl), user_id |-> u, log_date |-> date,
                     goal |-> goal, consumed |-> consumed] }

\* .upsert(row, { onConflict: 'user_id,log_date' }): INSERT ... ON CONFLICT
\* (user_id, log_date) DO UPDATE SET every column of the payload
upsert(tbl, u, date, goal, consumed) ==
    IF \E s \in tbl : s.user_id = u /\ s.log_date = date
    THEN { IF s.user_id = u /\ s.log_date = date
           THEN [s EXCEPT !.goal = goal, !.consumed = consumed]
           ELSE s : s \in tbl }
    ELSE tbl \cup { [id |-> FreshSnapId(tbl), user_id |-> u, log_date |-> date,
                     goal |-> goal, consumed |-> consumed] }

\* createMissingSnapshots: the loop over uniqueDates
RECURSIVE upsertDates(_, _, _, _)
upsertDates(tbl, u, dates, goal) ==
    IF dates = {} THEN tbl
    ELSE LET d == CHOOSE x \in dates : \A y \in dates : x <= y
         IN  upsertDates(upsert(tbl, u, d, goal, SumEntries(dayConsumption(u, d))),
                         u, dates \ {d}, goal)

\* createMissingSnapshots
createMissingSnapshots(tbl, u, now) ==
    upsertDates(tbl, u, uniqueDates(u, now), currentGoals(u))

\* fetchSnapshots: the user's rows, .order('log_date', { ascending: false })
RECURSIVE OrderDesc(_)
OrderDesc(S) ==
    IF S = {} THEN <<>>
    ELSE LET m == CHOOSE x \in S : \A y \in S : x.log_date >= y.log_date
         IN  <<m>> \o OrderDesc(S \ {m})

fetchSnapshots(tbl, u) == OrderDesc({ s \in tbl : s.user_id = u })

\* canEdit(logDate): Math.ceil((today - new Date(logDate)) / msPerDay) <= 7 ;
\* new Date('YYYY-MM-DD') is UTC midnight of that date, so the quotient is
\* (today - logDate) plus the fraction of the UTC day elapsed, in every zone
diffDays(logDate) == (today - logDate) + (IF tod = 0 THEN 0 ELSE 1)

canEdit(logDate) == diffDays(logDate) <= EditWindowDays

----------------------------------------------------------------------------
(* Actions of the history subsystem *)

NoId == 0

NoPage == [open |-> FALSE]

\* again: the handler that ran just before was the same handler of the same user
Op(name, u, res, again) ==
    [op |-> name, user |-> u, result |-> res, again |-> again]

\* lastOp tells the reconciliations and the saved corrections from the rest
OtherOp == Op("other", "", "ok", FALSE)

\* the AddFood page and the results of the food composer
composerVars == <<afPage, nOut, hist, sgModal>>

recipeVars == <<ingredients, foods, food_ingredients, meals, meal_foods, efPage, emPage, lmPage,
                amPage, composerVars>>

multVars == <<mIn, mOut>>

historyPage == <<shown, editingId, editValues>>

\* time passes: later in the day, or midnight of the next day
Tick ==
    /\ IF tod < 2
       THEN tod' = tod + 1 /\ today' = today
       ELSE today < Today0 + MaxAdvance /\ tod' = 0 /\ today' = today + 1
    /\ lastOp' = OtherOp
    /\ UNCHANGED <<logs, nextLogId, goals, snaps, historyPage, recipeVars, multVars>>

\* SetGoalsModal.handleSave
SetGoalsModal_handleSave(u, form) ==
    /\ Cardinality(GoalRows(u)) < MaxGoalRows
    /\ goals' = handleSave_table(goals, u, form, Cardinality(goals) + 1)
    /\ lastOp' = OtherOp
    /\ UNCHANGED <<today, tod, logs, nextLogId, snaps, historyPage, recipeVars, multVars>>

\* the user_consumption row LogMeal.handleSubmit inserts
ConsumptionRow(id, u, mealId, mealName, nutritionData, date) ==
    [id |-> id, user_id |-> u, meal_id |-> mealId, meal_name |-> mealName,
     calories |-> nutritionData.calories, protein |-> nutritionData.protein,
     carbs |-> nutritionData.carbs, sugar |-> nutritionData.sugar,
     fat |-> nutritionData.fat, fiber |-> nutritionData.fiber,
     quantity |-> R(1), consumed_date |-> date]

\* LogMeal.handleSubmit, entryMode = 'manual'
LogMeal_handleSubmit_manual(u, form, consumedDate) ==
    /\ nextLogId <= MaxLogs
    /\ logs' = logs \cup { ConsumptionRow(nextLogId, u, NoId, "Manual Entry", form, consumedDate) }
    /\ nextLogId' = nextLogId + 1
    /\ lastOp' = OtherOp
    /\ UNCHANGED <<today, tod, goals, snaps, historyPage, recipeVars, multVars>>

\* Logs.handleDelete(id): the policy lets a user delete only own rows
Logs_handleDelete(u, id) ==
    /\ \E l \in logs : l.id = id /\ l.user_id = u
    /\ logs' = { l \in logs : l.id # id }
    /\ lastOp' = OtherOp
    /\ UNCHANGED <<today, tod, nextLogId, goals, snaps, historyPage, recipeVars, multVars>>

\* History mounts for user u and runs initializeHistory: purge, then
\* createMissingSnapshots, then fetchSnapshots
History_initializeHistory(u) ==
    LET purged == delete_old_nutrition_snapshots(snaps, today)
        created == createMissingSnapshots(purged, u, today)
    IN  /\ snaps' = created
        /\ shown' = [shown EXCEPT ![u] = fetchSnapshots(created, u)]
        /\ editingId' = [editingId EXCEPT ![u] = NoId]
        /\ editValues' = [editValues EXCEPT ![u] = ZeroVec]
        /\ lastOp' = Op("initializeHistory", u,
                        IF lastOp.op = "saveEditing" /\ lastOp.user = u
                        THEN "after saveEditing" ELSE "ok",
                        lastOp.op = "initializeHistory" /\ lastOp.user = u)
        /\ UNCHANGED <<today, tod, logs, nextLogId, goals, recipeVars, multVars>>

\* History.startEditing(snapshot): the Edit button of a card is rendered only
\* when canEdit(snapshot.log_date) and the card is not the one being edited
History_startEditing(u, i) ==
    /\ i \in 1..Len(shown[u])
    /\ canEdit(shown[u][i].log_date)
    /\ editingId[u] # shown[u][i].id
    /\ editingId' = [editingId EXCEPT ![u] = shown[u][i].id]
    /\ editValues' = [editValues EXCEPT ![u] = shown[u][i].consumed]
    /\ lastOp' = OtherOp
    /\ UNCHANGED <<today, tod, logs, nextLogId, goals, snaps, shown, recipeVars, multVars>>

\* History.cancelEditing
History_cancelEditing(u) ==
    /\ \E i \in 1..Len(shown[u]) : shown[u][i].id = editingId[u]
    /\ editingId' = [editingId EXCEPT ![u] = NoId]
    /\ editValues' = [editValues EXCEPT ![u] = ZeroVec]
    /\ lastOp' = OtherOp
    /\ UNCHANGED <<today, tod, logs, nextLogId, goals, snaps, shown, recipeVars, multVars>>

\* saveEditing, were the update to lack its .eq('id', id) filter
saveEditing_table_EveryRow(tbl, id, values) ==
    { [s EXCEPT !.consumed = values] : s \in tbl }

\* saveEditing: .update({ six consumed columns }).eq('id', id)
saveEditing_table(tbl, id, values) ==
    { IF s.id = id THEN [s EXCEPT !.consumed = values] ELSE s : s \in tbl }

\* History.saveEditing(id): the Save button is rendered on the card being
\* edited; typed is what the onChange handlers of the six inputs have put into
\* editValues since startEditing (a card without input keeps the values
\* startEditing copied)
History_saveEditing(u, typed) ==
    /\ \E i \in 1..Len(shown[u]) : shown[u][i].id = editingId[u]
    /\ typed \in EditChoices \cup { editValues[u] }
    /\ LET updated == saveEditing_table(snaps, editingId[u], typed)
       IN  /\ snaps' = updated
           /\ shown' = [shown EXCEPT ![u] = fetchSnapshots(updated, u)]
    /\ editingId' = [editingId EXCEPT ![u] = NoId]
    /\ editValues' = [editValues EXCEPT ![u] = ZeroVec]
    /\ lastOp' = Op("saveEditing", u, "ok", FALSE)
    /\ UNCHANGED <<today, tod, logs, nextLogId, goals, recipeVars, multVars>>

InitClock == today = Today0 /\ tod = 0

InitRecipesEmpty ==
    /\ ingredients = <<>> /\ foods = <<>> /\ food_ingredients = {}
    /\ meals = <<>> /\ meal_foods = {}
    /\ efPage = NoPage /\ emPage = NoPage /\ lmPage = NoPage
    /\ afPage = NoPage /\ amPage = NoPage /\ nOut = <<>> /\ hist = <<>> /\ sgModal = <<>>

InitHistoryEmpty ==
    /\ goals = {} /\ snaps = {}
    /\ shown = [u \in Users |-> <<>>]
    /\ editingId = [u \in Users |-> NoId]
    /\ editValues = [u \in Users |-> ZeroVec]

InitMultIdle == mIn = <<>> /\ mOut = <<>>

InitHist ==
    /\ InitClock
    /\ InitRecipesEmpty
    /\ InitHistoryEmpty
    /\ InitMultIdle
    /\ logs = {} /\ nextLogId = 1
    /\ lastOp = OtherOp

NextHist ==
    \/ Tick
    \/ \E u \in Editors, form \in GoalChoices : SetGoalsModal_handleSave(u, form)
    \/ \E u \in Users, form \in ManualChoices : \E d \in LogDatesOf(u) : LogMeal_handleSubmit_manual(u, form, d)
    \/ \E u \in Editors, id \in 1..MaxLogs : Logs_handleDelete(u, id)
    \/ \E u \in Users : History_initializeHistory(u)
    \/ \E u \in Editors, i \in 1..MaxLogs : History_startEditing(u, i)
    \/ \E u \in Editors : History_cancelEditing(u)
    \/ \E u \in Editors : \E typed \in EditChoices \cup { editValues[u] } : History_saveEditing(u, typed)

SpecHist == InitHist /\ [][NextHist]_vars

----------------------------------------------------------------------------
(* Claims about the history subsystem (SpecHist) *)

SnapshotValues(tbl) ==
    { [user_id |-> s.user_id, log_date |-> s.log_date,
       goal |-> s.goal, consumed |-> s.consumed] : s \in tbl }

\* C3: aggregation idempotence.  A reconciliation that runs right after a
\* reconciliation of the same user leaves every snapshot, its consumed totals
\* and its goal values, as the first one left it.
C3_Idempotent ==
    [][(lastOp.op = "initializeHistory" /\ lastOp'.op = "initializeHistory"
          /\ lastOp'.user = lastOp.user /\ lastOp'.again)
         => SnapshotValues(snaps') = SnapshotValues(snaps)]_vars

\* C3 witness: a second reconciliation in succession has completed on a day
\* that has a snapshot with summed entries
C3_Witness ==
    /\ lastOp.op = "initializeHistory" /\ lastOp.again
    /\ \E s \in snaps : s.user_id = lastOp.user /\ s.consumed.calories = R(1000)

\* C4: fresh re-sum.  When a reconciliation has completed, every snapshot of
\* the user inside the lookback window carries the sum of the log entries that
\* exist for its date.
C4_FreshResum ==
    lastOp.op = "initializeHistory" =>
        \A s \in snaps :
            (s.user_id = lastOp.user /\ s.log_date >= today - LookbackDays)
                => s.consumed = SumEntries(dayConsumption(s.user_id, s.log_date))

\* C5: at most one snapshot row per (user, date) in every reachable state.
C5_OnePerUserDate ==
    \A s \in snaps : \A t \in snaps :
        (s.user_id = t.user_id /\ s.log_date = t.log_date) => s = t

\* C5 witness: a date that has a snapshot has been reconciled again, while the
\* other user holds a snapshot of the same date
C5_Witness ==
    /\ lastOp.op = "initializeHistory" /\ lastOp.again
    /\ \E s \in snaps : \E t \in snaps :
          /\ s.user_id = lastOp.user /\ t.user_id # s.user_id
          /\ s.log_date = t.log_date

\* C6: retention expiry.  When initializeHistory has completed, the list the
\* page shows holds no snapshot older than the 90-day horizon.
C6_RetentionExpiry ==
    lastOp.op = "initializeHistory" =>
        \A i \in 1..Len(shown[lastOp.user]) :
            shown[lastOp.user][i].log_date >= today - PurgeDays

\* C7: editable window boundary.  A snapshot dated 7 days before today is
\* editable and one dated 8 days before today is not, at every time of day.
C7_EditableBoundary ==
    \A s \in snaps :
        /\ (s.log_date = today - 7 => canEdit(s.log_date))
        /\ (s.log_date = today - 8 => ~canEdit(s.log_date))

\* C8: a saveEditing for a snapshot whose date is outside the editable window
\* ends Forbidden and leaves the table unchanged.
C8_ForbiddenOutsideWindow ==
    [][\A u \in Users :
          (/\ lastOp'.op = "saveEditing" /\ lastOp'.user = u
           /\ editingId[u] # NoId /\ editingId'[u] = NoId
           /\ \E s \in snaps : s.id = editingId[u] /\ ~canEdit(s.log_date))
              => (lastOp'.result = "Forbidden" /\ snaps' = snaps)]_vars

----------------------------------------------------------------------------
(* The unit converter as a pure function (SpecMult) *)

Quantities == { R(0), R(1), R(2), R(150), Norm(1, 2) }

Units == { "servings", "serving", "g", "G", "piece" }

RefAmounts == { R(0), R(1), R(2), R(100), Norm(1, 2), R(0 - 1) }

NoResult == NULL

InitMult ==
    /\ mIn \in [quantity : Quantities, unit : Units,
                food : [reference_serving_amount : RefAmounts,
                        reference_serving_unit : Units]]
    /\ mOut = [edit |-> NoResult, log |-> NoResult]
    /\ InitClock /\ InitRecipesEmpty /\ InitHistoryEmpty
    /\ logs = {} /\ nextLogId = 1
    /\ lastOp = OtherOp

histVars == <<today, tod, logs, nextLogId, goals, snaps, historyPage, lastOp>>

\* EditMeal.calculateNutrition calls calculateMultiplier on the arguments
EditMeal_callMultiplier ==
    /\ mOut.edit = NoResult
    /\ mOut' = [mOut EXCEPT !.edit = calculateMultiplier(mIn.quantity, mIn.unit, mIn.food)]
    /\ UNCHANGED <<mIn, histVars, recipeVars>>

\* LogMeal.calculateTotalNutrition calls calculateMultiplier on the arguments
LogMeal_callMultiplier ==
    /\ mOut.log = NoResult
    /\ mOut' = [mOut EXCEPT !.log = LogMeal_calculateMultiplier(mIn.quantity, mIn.unit, mIn.food)]
    /\ UNCHANGED <<mIn, histVars, recipeVars>>

NextMult == EditMeal_callMultiplier \/ LogMeal_callMultiplier

SpecMult == InitMult /\ [][NextMult]_vars

\* the multiplier as the claims state it
StatedMultiplier(quantity, unit, refAmt, refUnit) ==
    IF unit = "servings" THEN quantity
    ELSE IF unit = refUnit THEN RDiv(quantity, refAmt)
    ELSE quantity

\* C9: calculateMultiplier returns quantity for "servings", quantity divided by
\* the reference amount when the unit is the reference unit letter for letter,
\* and quantity otherwise, in both pages.
C9_Multiplier ==
    LET want == StatedMultiplier(mIn.quantity, mIn.unit,
                                 mIn.food.reference_serving_amount,
                                 mIn.food.reference_serving_unit)
    IN  /\ (mOut.edit # NoResult => mOut.edit = want)
        /\ (mOut.log # NoResult => mOut.log = want)

\* C9 witness: both pages have converted a quantity given in the reference
\* unit, and the unit differs from another unit only by case
C9_Witness ==
    /\ mOut.edit # NoResult /\ mOut.log # NoResult
    /\ mIn.unit = "g" /\ mIn.food.reference_serving_unit = "g"
    /\ mIn.quantity = R(150) /\ mIn.food.reference_serving_amount = R(100)
    /\ mOut.edit = Norm(3, 2)

\* the call asks for exactly one reference serving of a positive amount
IdentityCall ==
    /\ mIn.quantity = mIn.food.reference_serving_amount
    /\ mIn.unit = mIn.food.reference_serving_unit
    /\ RPos(mIn.food.reference_serving_amount)

\* C10: multiplier(refAmt, refUnit, refAmt, refUnit) = 1 for every positive
\* reference amount and every reference unit, "servings" included.
C10_Identity ==
    IdentityCall =>
        /\ (mOut.edit # NoResult => mOut.edit = R(1))
        /\ (mOut.log # NoResult => mOut.log = R(1))

\* C10 amended: the identity holds for every reference unit other than
\* "servings"; with the reference unit "servings" the result is the reference
\* amount itself.
C10_IdentityExceptServings ==
    IdentityCall =>
        LET want == IF mIn.unit = "servings" THEN mIn.food.reference_serving_amount ELSE R(1)
        IN  /\ (mOut.edit # NoResult => mOut.edit = want)
            /\ (mOut.log # NoResult => mOut.log = want)

\* C10 witness: one reference serving of 2 g has been converted by both pages
C10_Witness ==
    /\ IdentityCall
    /\ mIn.unit = "g" /\ mIn.quantity = R(2)
    /\ mOut.edit = R(1) /\ mOut.log = R(1)

\* the outcome of a call that fails with an InvalidReference error
InvalidReference == [error |-> "InvalidReference"]

\* C11: the unit converter never divides by zero.  A call with a reference
\* serving amount that is zero or negative fails with InvalidReference instead
\* of returning a number.
C11_InvalidReference ==
    ~RPos(mIn.food.reference_serving_amount) =>
        /\ (mOut.edit # NoResult => mOut.edit = InvalidReference)
        /\ (mOut.log # NoResult => mOut.log = InvalidReference)

----------------------------------------------------------------------------
(* Recipe graph: ingredients -> foods -> meals (SpecLog) *)

IngredientIds == { "i1", "i2" }

FoodIds == { "f1", "f2" }

MealIds == { "m1" }

\* the ingredient whose form is saved, the form row whose quantity is retyped,
\* the date meals are logged for and the number of entries logged from meals
EditedIngredients == { "i1" }

EditedRows == { 1 }

MealLogDates == { Today0 - 6 }

MaxMealLogs == 1

\* the six nutrient fields of a row
Six(row) == [k \in Nutrients |-> row[k]]

\* what the user types into the EditIngredient form (this page has no sugar input)
IngredientChoices ==
    { [calories |-> R(200), protein |-> R(20), carbs |-> R(5), fat |-> R(8), fiber |-> NULL] }

\* the quantities typed into the quantity inputs of EditMeal and LogMeal
QuantityChoices == { R(50) }

\* the rows of a junction table that belong to owner, as the sequence the form holds
RECURSIVE RowsToSeq(_)
RowsToSeq(S) ==
    IF S = {} THEN <<>>
    ELSE LET r == CHOOSE x \in S : \A y \in S : x.pos <= y.pos
         IN  <<r>> \o RowsToSeq(S \ {r})

\* EditFood.calculateNutrition, composite path: the running totals after the
\* entries cis, each scaled by quantity / ingredient.serving_amount; an entry
\* whose ingredient is not in the fetched list is skipped
RECURSIVE EditFood_compositeTotals(_, _)
EditFood_compositeTotals(cis, fetched) ==
    IF cis = <<>> THEN ZeroVec
    ELSE LET ci == cis[Len(cis)]
             rest == EditFood_compositeTotals(SubSeq(cis, 1, Len(cis) - 1), fetched)
         IN  IF ci.ingredient_id \notin DOMAIN fetched THEN rest
             ELSE LET ingredient == fetched[ci.ingredient_id]
                      multiplier == RDiv(ci.quantity, ingredient.serving_amount)
                  IN  [k \in Nutrients |->
                          RAdd(rest[k], RMul(IF k \in {"sugar", "fiber"}
                                             THEN OrZero(ingredient[k]) ELSE ingredient[k],
                                             multiplier))]

\* EditFood.calculateNutrition
EditFood_calculateNutrition(page) ==
    IF page.foodType = "simple"
    THEN IF page.selectedIngredientId \notin DOMAIN page.ingredients
         THEN Vec(R(0), R(0), R(0), NULL, R(0), NULL)
         ELSE Six(page.ingredients[page.selectedIngredientId])
    ELSE LET totals == EditFood_compositeTotals(page.compositeIngredients, page.ingredients)
         IN  [totals EXCEPT !.sugar = PosOrNull(totals.sugar), !.fiber = PosOrNull(totals.fiber)]

\* EditMeal.calculateNutrition: the running totals over mealFoods, each food of
\* the fetched list scaled by calculateMultiplier
RECURSIVE EditMeal_totals(_, _)
EditMeal_totals(mfs, fetched) ==
    IF mfs = <<>> THEN ZeroVec
    ELSE LET mf == mfs[Len(mfs)]
             rest == EditMeal_totals(SubSeq(mfs, 1, Len(mfs) - 1), fetched)
         IN  IF mf.food_id \notin DOMAIN fetched THEN rest
             ELSE LET food == fetched[mf.food_id]
                      multiplier == calculateMultiplier(mf.quantity, mf.unit, food)
                  IN  [k \in Nutrients |->
                          RAdd(rest[k], RMul(IF k \in {"sugar", "fiber"}
                                             THEN OrZero(food[k]) ELSE food[k],
                                             multiplier))]

\* EditMeal.calculateNutrition
EditMeal_calculateNutrition(page) ==
    LET totals == EditMeal_totals(page.mealFoods, page.foods)
    IN  [totals EXCEPT !.sugar = PosOrNull(totals.sugar), !.fiber = PosOrNull(totals.fiber)]

\* LogMeal.calculateTotalNutrition: the running totals over mealFoods, each
\* entry carrying the food row fetched by selectMeal
RECURSIVE LogMeal_calculateTotalNutrition(_)
LogMeal_calculateTotalNutrition(mfs) ==
    IF mfs = <<>> THEN ZeroVec
    ELSE LET mf == mfs[Len(mfs)]
             rest == LogMeal_calculateTotalNutrition(SubSeq(mfs, 1, Len(mfs) - 1))
             multiplier == LogMeal_calculateMultiplier(mf.quantity, mf.unit, mf.food)
         IN  [k \in Nutrients |->
                 RAdd(rest[k], RMul(IF k \in {"sugar", "fiber"}
                                    THEN OrZero(mf.food[k]) ELSE mf.food[k],
                                    multiplier))]

\* the user_consumption table after EditMeal.handleSubmit, were the save to
\* push the new totals into the entries logged from the meal
EditMeal_consumptionAfterSave_Refresh(tbl, mealId, nutrition) ==
    { IF l.meal_id = mealId
      THEN [l EXCEPT !.calories = nutrition.calories, !.protein = nutrition.protein,
                     !.carbs = nutrition.carbs, !.sugar = nutrition.sugar,
                     !.fat = nutrition.fat, !.fiber = nutrition.fiber]
      ELSE l : l \in tbl }

\* the user_consumption table after EditMeal.handleSubmit: the handler writes
\* meals and meal_foods only
EditMeal_consumptionAfterSave(tbl, mealId, nutrition) == tbl

----------------------------------------------------------------------------
(* Actions of the recipe pages *)

\* what no recipe page writes
nonRecipeVars == <<today, tod, goals, snaps, historyPage, multVars, composerVars>>

logVars == <<nonRecipeVars, amPage>>

\* the foods table after EditIngredient.handleSubmit, were the save to push
\* the new values into the foods made of that ingredient alone
foods_afterIngredientSave_Recompute(tbl, i, row) ==
    [f \in DOMAIN tbl |->
        IF { r.ingredient_id : r \in { x \in food_ingredients : x.food_id = f } } = {i}
        THEN [tbl[f] EXCEPT !.calories = row.calories, !.protein = row.protein,
                            !.carbs = row.carbs, !.fat = row.fat, !.fiber = row.fiber]
        ELSE tbl[f]]

\* the foods table after EditIngredient.handleSubmit: the handler writes
\* ingredients only
foods_afterIngredientSave(tbl, i, row) == tbl

\* EditIngredient.handleSubmit: .update({ calories, protein, carbs, fat, fiber })
EditIngredient_handleSubmit(i, form) ==
    /\ ingredients' = [ingredients EXCEPT ![i] =
           [@ EXCEPT !.calories = form.calories, !.protein = form.protein,
                     !.carbs = form.carbs, !.fat = form.fat, !.fiber = form.fiber]]
    /\ foods' = foods_afterIngredientSave(foods, i, form)
    /\ lastOp' = OtherOp
    /\ UNCHANGED <<food_ingredients, meals, meal_foods, logs, nextLogId,
                   efPage, emPage, lmPage, logVars>>

\* EditFood mounts on food id: fetchIngredients and fetchFood fill the state
EditFood_mount(id) ==
    /\ id \in DOMAIN foods
    /\ LET rows == RowsToSeq({ r \in food_ingredients : r.food_id = id })
       IN  efPage' = [open |-> TRUE, id |-> id, ingredients |-> ingredients,
                      foodType |-> IF Len(rows) = 1 THEN "simple" ELSE "composite",
                      selectedIngredientId |-> IF Len(rows) = 1 THEN rows[1].ingredient_id ELSE "",
                      compositeIngredients |->
                          IF Len(rows) > 1
                          THEN [n \in 1..Len(rows) |->
                                   [ingredient_id |-> rows[n].ingredient_id,
                                    quantity |-> rows[n].quantity, unit |-> rows[n].unit]]
                          ELSE <<>>]
    /\ lastOp' = OtherOp
    /\ UNCHANGED <<ingredients, foods, food_ingredients, meals, meal_foods, logs,
                   nextLogId, emPage, lmPage, logVars>>

\* EditFood.handleSubmit: update the food's totals, delete its food_ingredients,
\* insert the form's entries
EditFood_handleSubmit ==
    /\ efPage.open
    /\ LET id == efPage.id
           nutrition == EditFood_calculateNutrition(efPage)
           entries == IF efPage.foodType = "simple"
                      THEN << [ingredient_id |-> efPage.selectedIngredientId,
                               quantity |-> R(1), unit |-> "serving"] >>
                      ELSE efPage.compositeIngredients
       IN  /\ foods' = [foods EXCEPT ![id] =
                  [@ EXCEPT !.calories = nutrition.calories, !.protein = nutrition.protein,
                            !.carbs = nutrition.carbs, !.sugar = nutrition.sugar,
                            !.fat = nutrition.fat, !.fiber = nutrition.fiber]]
           /\ food_ingredients' =
                  { r \in food_ingredients : r.food_id # id }
                      \cup { [food_id |-> id, pos |-> n,
                              ingredient_id |-> entries[n].ingredient_id,
                              quantity |-> entries[n].quantity,
                              unit |-> entries[n].unit] : n \in 1..Len(entries) }
           /\ lastOp' = OtherOp
    /\ efPage' = NoPage
    /\ UNCHANGED <<ingredients, meals, meal_foods, logs, nextLogId, emPage, lmPage, logVars>>

\* EditMeal mounts on meal id: fetchFoods and fetchMeal fill the state
EditMeal_mount(id) ==
    /\ id \in DOMAIN meals
    /\ LET rows == RowsToSeq({ r \in meal_foods : r.meal_id = id })
       IN  emPage' = [open |-> TRUE, id |-> id, foods |-> foods,
                      mealFoods |-> [n \in 1..Len(rows) |->
                                        [food_id |-> rows[n].food_id,
                                         quantity |-> rows[n].quantity,
                                         unit |-> rows[n].unit]]]
    /\ lastOp' = OtherOp
    /\ UNCHANGED <<ingredients, foods, food_ingredients, meals, meal_foods, logs,
                   nextLogId, efPage, lmPage, logVars>>

\* EditMeal.updateMealFood(index, 'quantity', value)
EditMeal_updateMealFood(index, value) ==
    /\ emPage.open
    /\ index \in 1..Len(emPage.mealFoods)
    /\ emPage.mealFoods[index].quantity # value
    /\ emPage' = [emPage EXCEPT !.mealFoods[index].quantity = value]
    /\ lastOp' = OtherOp
    /\ UNCHANGED <<ingredients, foods, food_ingredients, meals, meal_foods, logs,
                   nextLogId, efPage, lmPage, logVars>>

\* meal_foods has CHECK (quantity > 0): the insert of rows fails as a whole
\* when one of them carries no positive quantity
MealFoodsAccepted(rows) == \A n \in 1..Len(rows) : RPos(rows[n].quantity)

\* EditMeal.handleSubmit: update the meal's totals, delete its meal_foods,
\* insert the form's entries; an error of the insert is shown and the update
\* and the delete stay
EditMeal_handleSubmit ==
    /\ emPage.open
    /\ Len(emPage.mealFoods) # 0
    /\ LET id == emPage.id
           nutrition == EditMeal_calculateNutrition(emPage)
           accepted == MealFoodsAccepted(emPage.mealFoods)
       IN  /\ meals' = [meals EXCEPT ![id] =
                  [@ EXCEPT !.calories = nutrition.calories, !.protein = nutrition.protein,
                            !.carbs = nutrition.carbs, !.sugar = nutrition.sugar,
                            !.fat = nutrition.fat, !.fiber = nutrition.fiber]]
           /\ meal_foods' =
                  { r \in meal_foods : r.meal_id # id }
                      \cup IF accepted
                           THEN { [meal_id |-> id, pos |-> n,
                                   food_id |-> emPage.mealFoods[n].food_id,
                                   quantity |-> emPage.mealFoods[n].quantity,
                                   unit |-> emPage.mealFoods[n].unit] :
                                      n \in 1..Len(emPage.mealFoods) }
                           ELSE {}
           /\ logs' = EditMeal_consumptionAfterSave(logs, id, nutrition)
           /\ lastOp' = Op("EditMeal.handleSubmit", id, IF accepted THEN "ok" ELSE "error", FALSE)
           /\ emPage' = IF accepted THEN NoPage ELSE emPage
    /\ UNCHANGED <<ingredients, foods, food_ingredients, nextLogId, efPage, lmPage, logVars>>

\* LogMeal.selectMeal(mealId): the meal row and its meal_foods joined with foods
LogMeal_selectMeal(mealId) ==
    /\ mealId \in DOMAIN meals
    /\ LET rows == RowsToSeq({ r \in meal_foods : r.meal_id = mealId })
       IN  lmPage' = [open |-> TRUE,
                      selectedMeal |-> [id |-> mealId, name |-> meals[mealId].name],
                      mealFoods |-> [n \in 1..Len(rows) |->
                                        [food_id |-> rows[n].food_id,
                                         quantity |-> rows[n].quantity,
                                         unit |-> rows[n].unit,
                                         food |-> foods[rows[n].food_id]]]]
    /\ lastOp' = OtherOp
    /\ UNCHANGED <<ingredients, foods, food_ingredients, meals, meal_foods, logs,
                   nextLogId, efPage, emPage, logVars>>

\* LogMeal.updateMealFoodQuantity(index, newQuantity): parseFloat(newQuantity) || 0
LogMeal_updateMealFoodQuantity(index, newQuantity) ==
    /\ lmPage.open
    /\ index \in 1..Len(lmPage.mealFoods)
    /\ lmPage.mealFoods[index].quantity # OrZero(newQuantity)
    /\ lmPage' = [lmPage EXCEPT !.mealFoods[index].quantity = OrZero(newQuantity)]
    /\ lastOp' = OtherOp
    /\ UNCHANGED <<ingredients, foods, food_ingredients, meals, meal_foods, logs,
                   nextLogId, efPage, emPage, logVars>>

\* LogMeal.handleSubmit, entryMode = 'meal'
LogMeal_handleSubmit_meal(u, consumedDate) ==
    /\ lmPage.open
    /\ nextLogId <= MaxMealLogs
    /\ LET totals == LogMeal_calculateTotalNutrition(lmPage.mealFoods)
           nutritionData == [totals EXCEPT !.sugar = PosOrNull(totals.sugar),
                                           !.fiber = PosOrNull(totals.fiber)]
       IN  logs' = logs \cup { ConsumptionRow(nextLogId, u, lmPage.selectedMeal.id,
                                              lmPage.selectedMeal.name, nutritionData,
                                              consumedDate) }
    /\ nextLogId' = nextLogId + 1
    /\ lmPage' = NoPage
    /\ lastOp' = Op("LogMeal.handleSubmit", u, "ok", FALSE)
    /\ UNCHANGED <<ingredients, foods, food_ingredients, meals, meal_foods,
                   efPage, emPage, logVars>>

\* Logs.handleDelete(id) on the Logs page of user u
Logs_handleDelete_entry(u, id) ==
    /\ \E l \in logs : l.id = id /\ l.user_id = u
    /\ logs' = { l \in logs : l.id # id }
    /\ lastOp' = OtherOp
    /\ UNCHANGED <<ingredients, foods, food_ingredients, meals, meal_foods,
                   nextLogId, efPage, emPage, lmPage, logVars>>

\* the recipe graph the pages start from: two ingredients per 100 g, a simple
\* food and a composite food saved by EditFood, a meal saved by EditMeal
Ingredients0 ==
    [i \in IngredientIds |->
        IF i = "i1"
        THEN [serving_amount |-> R(100), serving_unit |-> "g", calories |-> R(165),
              protein |-> R(31), carbs |-> R(0), sugar |-> NULL, fat |-> R(4), fiber |-> NULL]
        ELSE [serving_amount |-> R(100), serving_unit |-> "g", calories |-> R(130),
              protein |-> R(3), carbs |-> R(28), sugar |-> R(1), fat |-> R(0), fiber |-> R(1)]]

FoodIngredients0 ==
    { [food_id |-> "f1", pos |-> 1, ingredient_id |-> "i1", quantity |-> R(1), unit |-> "serving"],
      [food_id |-> "f2", pos |-> 1, ingredient_id |-> "i1", quantity |-> R(150), unit |-> "g"],
      [food_id |-> "f2", pos |-> 2, ingredient_id |-> "i2", quantity |-> R(200), unit |-> "g"] }

Foods0 ==
    [f \in FoodIds |->
        LET rows == RowsToSeq({ r \in FoodIngredients0 : r.food_id = f })
            n == EditFood_calculateNutrition(
                     [ingredients |-> Ingredients0,
                      foodType |-> IF Len(rows) = 1 THEN "simple" ELSE "composite",
                      selectedIngredientId |-> rows[1].ingredient_id,
                      compositeIngredients |-> rows])
        IN  [calories |-> n.calories, protein |-> n.protein, carbs |-> n.carbs,
             sugar |-> n.sugar, fat |-> n.fat, fiber |-> n.fiber,
             reference_serving_amount |-> IF f = "f1" THEN R(100) ELSE R(1),
             reference_serving_unit |-> IF f = "f1" THEN "g" ELSE "serving"]]

MealFoods0 ==
    { [meal_id |-> "m1", pos |-> 1, food_id |-> "f1", quantity |-> R(200), unit |-> "g"],
      [meal_id |-> "m1", pos |-> 2, food_id |-> "f2", quantity |-> R(1), unit |-> "servings"] }

Meals0 ==
    [m \in MealIds |->
        LET n == EditMeal_calculateNutrition(
                     [foods |-> Foods0,
                      mealFoods |-> RowsToSeq({ r \in MealFoods0 : r.meal_id = m })])
        IN  [name |-> "Dinner", calories |-> n.calories, protein |-> n.protein,
             carbs |-> n.carbs, sugar |-> n.sugar, fat |-> n.fat, fiber |-> n.fiber]]

InitLog ==
    /\ InitClock /\ InitHistoryEmpty /\ InitMultIdle
    /\ ingredients = Ingredients0 /\ foods = Foods0 /\ food_ingredients = FoodIngredients0
    /\ meals = Meals0 /\ meal_foods = MealFoods0
    /\ efPage = NoPage /\ emPage = NoPage /\ lmPage = NoPage
    /\ afPage = NoPage /\ amPage = NoPage /\ nOut = <<>> /\ hist = <<>> /\ sgModal = <<>>
    /\ logs = {} /\ nextLogId = 1
    /\ lastOp = OtherOp

NextLog ==
    \/ \E i \in EditedIngredients, form \in IngredientChoices : EditIngredient_handleSubmit(i, form)
    \/ \E f \in FoodIds : EditFood_mount(f)
    \/ EditFood_handleSubmit
    \/ \E m \in MealIds : EditMeal_mount(m)
    \/ \E n \in EditedRows, q \in QuantityChoices : EditMeal_updateMealFood(n, q)
    \/ EditMeal_handleSubmit
    \/ \E m \in MealIds : LogMeal_selectMeal(m)
    \/ \E n \in EditedRows, q \in QuantityChoices : LogMeal_updateMealFoodQuantity(n, q)
    \/ \E u \in Editors, d \in MealLogDates : LogMeal_handleSubmit_meal(u, d)
    \/ \E u \in Editors, id \in 1..MaxMealLogs : Logs_handleDelete_entry(u, id)

SpecLog == InitLog /\ [][NextLog]_vars

\* C2: snapshot immutability.  An entry of user_consumption keeps its six
\* nutrient values and its consumed date through every later step, the saves of
\* its meal, of the meal's foods and of their ingredients included.
C2_SnapshotImmutable ==
    [][\A l \in logs : \A k \in logs' :
          k.id = l.id => (Six(k) = Six(l) /\ k.consumed_date = l.consumed_date)]_vars

\* C2 witness: the meal of a logged entry has just been saved again, after an
\* ingredient and a food of it were saved, and now stores other totals than
\* the entry
C2_Witness ==
    /\ lastOp.op = "EditMeal.handleSubmit"
    /\ ingredients # Ingredients0 /\ foods # Foods0
    /\ \E l \in logs : l.meal_id = lastOp.user /\ Six(l) # Six(meals[l.meal_id])

----------------------------------------------------------------------------
(* The food composer: AddFood and the totals of a food form (SpecFood) *)

\* the longest composition typed into a form
MaxEntries == 2

\* the id the database gives the food row AddFood inserts
NewFoodId == "f3"

\* what the user types into a composition row: quantity and unit
EntryQuantities == { R(150), R(2) }

EntryUnits == { "g", "cup" }

\* what the user leaves or types in the reference serving inputs
ReferenceAmounts == { R(100), R(150) }

FormEntries ==
    [ingredient_id : IngredientIds, quantity : EntryQuantities, unit : EntryUnits]

FormCompositions ==
    UNION { [1..n -> FormEntries] : n \in 0..MaxEntries }

\* the forms of AddFood: a simple food with or without a selected ingredient,
\* a composite food with its rows
FoodForms ==
    { [open |-> TRUE, ingredients |-> Ingredients0, foodType |-> "simple",
       selectedIngredientId |-> i, compositeIngredients |-> <<>>,
       referenceServingAmount |-> a, referenceServingUnit |-> "g"] :
          i \in IngredientIds \cup {""}, a \in ReferenceAmounts }
    \cup
    { [open |-> TRUE, ingredients |-> Ingredients0, foodType |-> "composite",
       selectedIngredientId |-> "", compositeIngredients |-> cis,
       referenceServingAmount |-> a, referenceServingUnit |-> "g"] :
          cis \in FormCompositions, a \in ReferenceAmounts }

\* AddFood.calculateNutrition, composite path: the running totals after the
\* entries cis, each scaled by quantity / ingredient.serving_amount; an entry
\* whose ingredient is not in the fetched list is skipped
RECURSIVE AddFood_compositeTotals(_, _)
AddFood_compositeTotals(cis, fetched) ==
    IF cis = <<>> THEN ZeroVec
    ELSE LET ci == cis[Len(cis)]
             rest == AddFood_compositeTotals(SubSeq(cis, 1, Len(cis) - 1), fetched)
         IN  IF ci.ingredient_id \notin DOMAIN fetched THEN rest
             ELSE LET ingredient == fetched[ci.ingredient_id]
                      multiplier == RDiv(ci.quantity, ingredient.serving_amount)
                  IN  [k \in Nutrients |->
                          RAdd(rest[k], RMul(IF k \in {"sugar", "fiber"}
                                             THEN OrZero(ingredient[k]) ELSE ingredient[k],
                                             multiplier))]

\* AddFood.calculateNutrition
AddFood_calculateNutrition(page) ==
    IF page.foodType = "simple"
    THEN IF page.selectedIngredientId \notin DOMAIN page.ingredients
         THEN Vec(R(0), R(0), R(0), NULL, R(0), NULL)
         ELSE Six(page.ingredients[page.selectedIngredientId])
    ELSE LET totals == AddFood_compositeTotals(page.compositeIngredients, page.ingredients)
         IN  [totals EXCEPT !.sugar = PosOrNull(totals.sugar), !.fiber = PosOrNull(totals.fiber)]

\* AddFood.handleSubmit, the rows of food_ingredients it sends
AddFood_foodIngredientsData(page) ==
    IF page.foodType = "simple"
    THEN << [ingredient_id |-> page.selectedIngredientId,
             quantity |-> page.referenceServingAmount,
             unit |-> page.referenceServingUnit] >>
    ELSE page.compositeIngredients

\* food_ingredients.ingredient_id is a uuid that references ingredients and
\* quantity has CHECK (quantity > 0): the insert of rows fails as a whole when
\* one of them names no ingredient or carries no positive quantity
InsertAccepted(rows) ==
    \A n \in 1..Len(rows) :
        rows[n].ingredient_id \in DOMAIN ingredients /\ RPos(rows[n].quantity)

composerRest == <<today, tod, ingredients, meals, meal_foods, logs, nextLogId, goals, snaps,
                  historyPage, efPage, emPage, lmPage, amPage, hist, sgModal, multVars>>

\* the preview of AddFood renders calculateNutrition() of the form
AddFood_callNutrition ==
    /\ afPage.open
    /\ nOut.add = NoResult
    /\ nOut' = [nOut EXCEPT !.add = AddFood_calculateNutrition(afPage)]
    /\ lastOp' = OtherOp
    /\ UNCHANGED <<afPage, foods, food_ingredients, composerRest>>

\* the preview of EditFood renders calculateNutrition() of a form of the same contents
EditFood_callNutrition ==
    /\ afPage.open
    /\ nOut.edit = NoResult
    /\ nOut' = [nOut EXCEPT !.edit = EditFood_calculateNutrition(afPage)]
    /\ lastOp' = OtherOp
    /\ UNCHANGED <<afPage, foods, food_ingredients, composerRest>>

\* AddFood.handleSubmit: insert the food with the totals of the form, then its
\* food_ingredients; an error of the second insert is shown and the food row stays.
\* The submit button is disabled for a composite form without rows.
AddFood_handleSubmit ==
    /\ afPage.open
    /\ ~(afPage.foodType = "composite" /\ Len(afPage.compositeIngredients) = 0)
    /\ NewFoodId \notin DOMAIN foods
    /\ LET nutrition == AddFood_calculateNutrition(afPage)
           foodIngredientsData == AddFood_foodIngredientsData(afPage)
           accepted == InsertAccepted(foodIngredientsData)
       IN  /\ foods' = foods @@ (NewFoodId :>
                  [calories |-> nutrition.calories, protein |-> nutrition.protein,
                   carbs |-> nutrition.carbs, sugar |-> nutrition.sugar,
                   fat |-> nutrition.fat, fiber |-> nutrition.fiber,
                   reference_serving_amount |-> afPage.referenceServingAmount,
                   reference_serving_unit |-> afPage.referenceServingUnit])
           /\ food_ingredients' =
                  IF accepted
                  THEN food_ingredients \cup
                           { [food_id |-> NewFoodId, pos |-> n,
                              ingredient_id |-> foodIngredientsData[n].ingredient_id,
                              quantity |-> foodIngredientsData[n].quantity,
                              unit |-> foodIngredientsData[n].unit] :
                                 n \in 1..Len(foodIngredientsData) }
                  ELSE food_ingredients
           /\ afPage' = IF accepted THEN NoPage ELSE afPage
           /\ lastOp' = Op("AddFood.handleSubmit", NewFoodId,
                           IF accepted THEN "ok" ELSE "error", FALSE)
    /\ UNCHANGED <<nOut, composerRest>>

InitFood ==
    /\ InitClock /\ InitHistoryEmpty /\ InitMultIdle
    /\ ingredients = Ingredients0 /\ foods = <<>> /\ food_ingredients = {}
    /\ meals = <<>> /\ meal_foods = {}
    /\ efPage = NoPage /\ emPage = NoPage /\ lmPage = NoPage
    /\ afPage \in FoodForms /\ amPage = NoPage /\ hist = <<>> /\ sgModal = <<>>
    /\ nOut = [add |-> NoResult, edit |-> NoResult]
    /\ logs = {} /\ nextLogId = 1
    /\ lastOp = OtherOp

NextFood == AddFood_callNutrition \/ EditFood_callNutrition \/ AddFood_handleSubmit

SpecFood == InitFood /\ [][NextFood]_vars

\* the totals of a composition as the claims state them: the sum over the
\* entries of the ingredient's values times the stated multiplier
RECURSIVE StatedTotals(_, _)
StatedTotals(cis, fetched) ==
    IF cis = <<>> THEN ZeroVec
    ELSE LET ci == cis[Len(cis)]
             rest == StatedTotals(SubSeq(cis, 1, Len(cis) - 1), fetched)
             ingredient == fetched[ci.ingredient_id]
             multiplier == StatedMultiplier(ci.quantity, ci.unit,
                                            ingredient.serving_amount, ingredient.serving_unit)
         IN  [k \in Nutrients |->
                 RAdd(rest[k], RMul(IF k \in {"sugar", "fiber"}
                                    THEN OrZero(ingredient[k]) ELSE ingredient[k],
                                    multiplier))]

\* the value a total is compared by: an absent sugar or fiber counts as zero
Amounts(v) == [k \in Nutrients |-> OrZero(v[k])]

\* C12: composite food additivity.  For a composite form, calculateNutrition of
\* AddFood and of EditFood return the sum over the rows of the ingredient's
\* values times the three-branch multiplier of the row's quantity and unit
\* against the ingredient's serving.
C12_CompositeAdditivity ==
    afPage.open /\ afPage.foodType = "composite" =>
        LET want == Amounts(StatedTotals(afPage.compositeIngredients, afPage.ingredients))
        IN  /\ (nOut.add # NoResult => Amounts(nOut.add) = want)
            /\ (nOut.edit # NoResult => Amounts(nOut.edit) = want)

\* C13: simple food scaling.  A simple food that AddFood has saved with the
\* composition entry (ingredient, quantity, unit) stores the ingredient's values
\* times the multiplier of that quantity and unit against the ingredient's
\* serving: 165 kcal per 100 g saved with 150 g stores 247.5 kcal.
C13_SimpleScaling ==
    lastOp.op = "AddFood.handleSubmit" /\ lastOp.result = "ok" =>
        \A r \in food_ingredients :
            (r.food_id = NewFoodId
                /\ Cardinality({ x \in food_ingredients : x.food_id = NewFoodId }) = 1)
            => Amounts(foods[NewFoodId]) =
                   Amounts(StatedTotals(<<r>>, ingredients))

----------------------------------------------------------------------------
(* Meal saves: AddMeal and EditMeal over a recipe graph that is being edited
   (SpecMeal) *)

\* the longest composition built in the AddMeal form
MaxMealRows == 2

\* the id the database gives the meal row AddMeal inserts
NewMealId == "m2"

\* AddMeal.calculateNutrition: the running totals over mealFoods, each food of
\* the fetched list scaled by the quantity
RECURSIVE AddMeal_totals(_, _)
AddMeal_totals(mfs, fetched) ==
    IF mfs = <<>> THEN ZeroVec
    ELSE LET mf == mfs[Len(mfs)]
             rest == AddMeal_totals(SubSeq(mfs, 1, Len(mfs) - 1), fetched)
         IN  IF mf.food_id \notin DOMAIN fetched THEN rest
             ELSE LET food == fetched[mf.food_id]
                      multiplier == mf.quantity
                  IN  [k \in Nutrients |->
                          RAdd(rest[k], RMul(IF k \in {"sugar", "fiber"}
                                             THEN OrZero(food[k]) ELSE food[k],
                                             multiplier))]

\* AddMeal.calculateNutrition
AddMeal_calculateNutrition(page) ==
    LET totals == AddMeal_totals(page.mealFoods, page.foods)
    IN  [totals EXCEPT !.sugar = PosOrNull(totals.sugar), !.fiber = PosOrNull(totals.fiber)]

\* AddMeal mounts: fetchFoods selects id, name, brand_name and the six values
AddMeal_mount ==
    /\ ~amPage.open
    /\ NewMealId \notin DOMAIN meals
    /\ amPage' = [open |-> TRUE, foods |-> [f \in DOMAIN foods |-> Six(foods[f])],
                  mealFoods |-> <<>>]
    /\ lastOp' = OtherOp
    /\ UNCHANGED <<ingredients, foods, food_ingredients, meals, meal_foods, logs,
                   nextLogId, efPage, emPage, lmPage, nonRecipeVars>>

\* AddMeal.addMealFood: a row for foods[0], the first food by name (f1), with
\* quantity '100' and unit 'g'
AddMeal_addMealFood ==
    /\ amPage.open
    /\ DOMAIN amPage.foods # {}
    /\ Len(amPage.mealFoods) < MaxMealRows
    /\ amPage' = [amPage EXCEPT !.mealFoods =
           Append(@, [food_id |-> "f1", quantity |-> R(100), unit |-> "g"])]
    /\ lastOp' = OtherOp
    /\ UNCHANGED <<ingredients, foods, food_ingredients, meals, meal_foods, logs,
                   nextLogId, efPage, emPage, lmPage, nonRecipeVars>>

\* AddMeal.updateMealFood(index, 'food_id', value)
AddMeal_updateMealFood(index, value) ==
    /\ amPage.open
    /\ index \in 1..Len(amPage.mealFoods)
    /\ amPage.mealFoods[index].food_id # value
    /\ amPage' = [amPage EXCEPT !.mealFoods[index].food_id = value]
    /\ lastOp' = OtherOp
    /\ UNCHANGED <<ingredients, foods, food_ingredients, meals, meal_foods, logs,
                   nextLogId, efPage, emPage, lmPage, nonRecipeVars>>

\* AddMeal.handleSubmit: a form without rows is refused with a message;
\* otherwise insert the meal with the totals of the form, then its meal_foods
AddMeal_handleSubmit ==
    /\ amPage.open
    /\ IF Len(amPage.mealFoods) = 0
       THEN /\ lastOp.op # "AddMeal.handleSubmit"
            /\ lastOp' = Op("AddMeal.handleSubmit", "", "refused", FALSE)
            /\ UNCHANGED <<meals, meal_foods, amPage>>
       ELSE LET nutrition == AddMeal_calculateNutrition(amPage)
                accepted == MealFoodsAccepted(amPage.mealFoods)
            IN  /\ meals' = meals @@ (NewMealId :>
                       [name |-> "Lunch", calories |-> nutrition.calories,
                        protein |-> nutrition.protein, carbs |-> nutrition.carbs,
                        sugar |-> nutrition.sugar, fat |-> nutrition.fat,
                        fiber |-> nutrition.fiber])
                /\ meal_foods' =
                       IF accepted
                       THEN meal_foods \cup
                                { [meal_id |-> NewMealId, pos |-> n,
                                   food_id |-> amPage.mealFoods[n].food_id,
                                   quantity |-> amPage.mealFoods[n].quantity,
                                   unit |-> amPage.mealFoods[n].unit] :
                                      n \in 1..Len(amPage.mealFoods) }
                       ELSE meal_foods
                /\ amPage' = IF accepted THEN NoPage ELSE amPage
                /\ lastOp' = Op("AddMeal.handleSubmit", NewMealId,
                                IF accepted THEN "ok" ELSE "error", FALSE)
    /\ UNCHANGED <<ingredients, foods, food_ingredients, logs, nextLogId,
                   efPage, emPage, lmPage, nonRecipeVars>>

NextMeal ==
    \/ \E i \in EditedIngredients, form \in IngredientChoices : EditIngredient_handleSubmit(i, form)
    \/ \E f \in FoodIds : EditFood_mount(f)
    \/ EditFood_handleSubmit
    \/ \E m \in MealIds : EditMeal_mount(m)
    \/ \E n \in EditedRows, q \in QuantityChoices \cup {R(0)} : EditMeal_updateMealFood(n, q)
    \/ EditMeal_handleSubmit
    \/ AddMeal_mount
    \/ AddMeal_addMealFood
    \/ \E n \in 1..MaxMealRows, f \in FoodIds : AddMeal_updateMealFood(n, f)
    \/ AddMeal_handleSubmit

SpecMeal == InitLog /\ [][NextMeal]_vars

\* the totals of a saved meal as the claims state them: the sum over its
\* meal_foods of the food's stored totals times the stated multiplier
RECURSIVE StatedMealTotals(_, _)
StatedMealTotals(rows, store) ==
    IF rows = <<>> THEN ZeroVec
    ELSE LET mf == rows[Len(rows)]
             rest == StatedMealTotals(SubSeq(rows, 1, Len(rows) - 1), store)
             food == store[mf.food_id]
             multiplier == StatedMultiplier(mf.quantity, mf.unit,
                                            food.reference_serving_amount,
                                            food.reference_serving_unit)
         IN  [k \in Nutrients |->
                 RAdd(rest[k], RMul(OrZero(food[k]), multiplier))]

\* C14: meal composition invariant.  Right after a successful AddMeal.handleSubmit
\* or EditMeal.handleSubmit the six stored totals of the meal are the sum over
\* its saved meal_foods of the food's totals, as the store holds them at the
\* save, times the multiplier of the row, also when a food was saved again
\* between the form's fetch and the meal save.
C14_MealComposition ==
    lastOp.op \in {"AddMeal.handleSubmit", "EditMeal.handleSubmit"} /\ lastOp.result = "ok" =>
        LET id == lastOp.user
        IN  Amounts(meals[id]) =
                Amounts(StatedMealTotals(RowsToSeq({ r \in meal_foods : r.meal_id = id }), foods))

\* the rows of the LogMeal form are the rows the selected meal is stored with
FormAsStored(page) ==
    LET rows == RowsToSeq({ r \in meal_foods : r.meal_id = page.selectedMeal.id })
    IN  /\ Len(page.mealFoods) = Len(rows)
        /\ \A n \in 1..Len(rows) :
               /\ page.mealFoods[n].food_id = rows[n].food_id
               /\ page.mealFoods[n].quantity = rows[n].quantity
               /\ page.mealFoods[n].unit = rows[n].unit

\* C15: logging a saved meal by reference.  The entry that LogMeal.handleSubmit
\* writes for a selected meal whose rows were left as stored carries the meal's
\* six stored totals times the logged quantity, also when a food of the meal
\* was saved with other totals after the meal was last saved.
C15_LogByReference ==
    [][(lastOp'.op = "LogMeal.handleSubmit" /\ lmPage.open /\ FormAsStored(lmPage)) =>
          \A l \in logs' \ logs :
              \A k \in Nutrients :
                  OrZero(l[k]) = RMul(OrZero(meals[l.meal_id][k]), l.quantity)]_vars

\* C16: an empty composition is rejected.  A save whose composition list has no
\* entry fails and writes nothing: no food is stored without a food_ingredients
\* row and no meal without a meal_foods row, with the all-zero totals of an
\* empty list.
C16_EmptyCompositionRejected ==
    /\ \A f \in DOMAIN foods : \E r \in food_ingredients : r.food_id = f
    /\ \A m \in DOMAIN meals : \E r \in meal_foods : r.meal_id = m

----------------------------------------------------------------------------
(* LogMeal in create mode: handleSaveAndLog, one database request per step,
   next to the saves of other sessions (SpecSave) *)

\* what the user types into the name input and into a quantity input of the
\* create form; an emptied quantity input reads as 0
CreateMealNames == { "", "Lunch" }

CreateQuantities == { NULL, R(2) }

\* LogMeal.calculateCreateMealNutrition: the running totals over createMealFoods
RECURSIVE LogMeal_calculateCreateMealNutrition(_)
LogMeal_calculateCreateMealNutrition(mfs) ==
    IF mfs = <<>> THEN ZeroVec
    ELSE LET mf == mfs[Len(mfs)]
             rest == LogMeal_calculateCreateMealNutrition(SubSeq(mfs, 1, Len(mfs) - 1))
             multiplier == LogMeal_calculateMultiplier(mf.quantity, mf.unit, mf.food)
         IN  [k \in Nutrients |->
                 RAdd(rest[k], RMul(IF k \in {"sugar", "fiber"}
                                    THEN OrZero(mf.food[k]) ELSE mf.food[k],
                                    multiplier))]

\* a handler that goes on to the log whatever the insert of meal_foods answered
handleSaveAndLog_afterMealFoods_IgnoreError(accepted) == "log"

\* handleSaveAndLog after the insert of meal_foods: if (mealFoodsError) throw
handleSaveAndLog_afterMealFoods(accepted) == IF accepted THEN "log" ELSE "idle"

saveRest == <<ingredients, foods, food_ingredients, efPage, emPage, nonRecipeVars, amPage>>

\* LogMeal mounts and the user switches to create mode: fetchAllFoods
LogMeal_mountCreate ==
    /\ ~lmPage.open
    /\ NewMealId \notin DOMAIN meals
    /\ lmPage' = [open |-> TRUE, entryMode |-> "create", allFoods |-> foods,
                  createMealName |-> "", createMealFoods |-> <<>>, step |-> "idle"]
    /\ lastOp' = OtherOp
    /\ UNCHANGED <<meals, meal_foods, logs, nextLogId, saveRest>>

\* setCreateMealName(value)
LogMeal_setCreateMealName(value) ==
    /\ lmPage.open /\ lmPage.step = "idle"
    /\ lmPage.createMealName # value
    /\ lmPage' = [lmPage EXCEPT !.createMealName = value]
    /\ lastOp' = OtherOp
    /\ UNCHANGED <<meals, meal_foods, logs, nextLogId, saveRest>>

\* LogMeal.addExtraFood(foodId) in create mode: quantity 1, unit 'servings'
LogMeal_addExtraFood(foodId) ==
    /\ lmPage.open /\ lmPage.step = "idle"
    /\ foodId \in DOMAIN lmPage.allFoods
    /\ Len(lmPage.createMealFoods) < MaxMealRows
    /\ lmPage' = [lmPage EXCEPT !.createMealFoods =
           Append(@, [food_id |-> foodId, quantity |-> R(1), unit |-> "servings",
                      food |-> lmPage.allFoods[foodId]])]
    /\ lastOp' = OtherOp
    /\ UNCHANGED <<meals, meal_foods, logs, nextLogId, saveRest>>

\* LogMeal.updateCreateMealFoodQuantity(index, newQuantity): parseFloat(newQuantity) || 0
LogMeal_updateCreateMealFoodQuantity(index, newQuantity) ==
    /\ lmPage.open /\ lmPage.step = "idle"
    /\ index \in 1..Len(lmPage.createMealFoods)
    /\ lmPage.createMealFoods[index].quantity # OrZero(newQuantity)
    /\ lmPage' = [lmPage EXCEPT !.createMealFoods[index].quantity = OrZero(newQuantity)]
    /\ lastOp' = OtherOp
    /\ UNCHANGED <<meals, meal_foods, logs, nextLogId, saveRest>>

\* LogMeal.handleSaveAndLog up to its first request: a form without a name or
\* without rows is refused with a message; otherwise the meal is inserted with
\* the totals of the form
LogMeal_handleSaveAndLog_meal(u) ==
    /\ lmPage.open /\ lmPage.step = "idle"
    /\ NewMealId \notin DOMAIN meals
    /\ IF lmPage.createMealName = "" \/ Len(lmPage.createMealFoods) = 0
       THEN /\ lastOp.op # "LogMeal.handleSaveAndLog"
            /\ lastOp' = Op("LogMeal.handleSaveAndLog", u, "refused", FALSE)
            /\ UNCHANGED <<meals, lmPage>>
       ELSE LET totals == LogMeal_calculateCreateMealNutrition(lmPage.createMealFoods)
            IN  /\ meals' = meals @@ (NewMealId :>
                       [name |-> lmPage.createMealName, calories |-> totals.calories,
                        protein |-> totals.protein, carbs |-> totals.carbs,
                        sugar |-> PosOrNull(totals.sugar), fat |-> totals.fat,
                        fiber |-> PosOrNull(totals.fiber)])
                /\ lmPage' = [lmPage EXCEPT !.step = "mealFoods"]
                /\ lastOp' = OtherOp
    /\ UNCHANGED <<meal_foods, logs, nextLogId, saveRest>>

\* LogMeal.handleSaveAndLog, second request: insert the rows of meal_foods; an
\* error ends the handler with a message
LogMeal_handleSaveAndLog_mealFoods(u) ==
    /\ lmPage.open /\ lmPage.step = "mealFoods"
    /\ LET accepted == MealFoodsAccepted(lmPage.createMealFoods)
       IN  /\ meal_foods' =
                  IF accepted
                  THEN meal_foods \cup
                           { [meal_id |-> NewMealId, pos |-> n,
                              food_id |-> lmPage.createMealFoods[n].food_id,
                              quantity |-> lmPage.createMealFoods[n].quantity,
                              unit |-> lmPage.createMealFoods[n].unit] :
                                 n \in 1..Len(lmPage.createMealFoods) }
                  ELSE meal_foods
           /\ lmPage' = [lmPage EXCEPT !.step = handleSaveAndLog_afterMealFoods(accepted)]
           /\ lastOp' = IF accepted THEN OtherOp
                        ELSE Op("LogMeal.handleSaveAndLog", u, "error", FALSE)
    /\ UNCHANGED <<meals, logs, nextLogId, saveRest>>

\* LogMeal.handleSaveAndLog, third request: insert the entry of user_consumption
\* with the totals of the form and meal_id: newMeal.id, then leave the page
LogMeal_handleSaveAndLog_log(u, consumedDate) ==
    /\ lmPage.open /\ lmPage.step = "log"
    /\ LET totals == LogMeal_calculateCreateMealNutrition(lmPage.createMealFoods)
           nutritionData == [totals EXCEPT !.sugar = PosOrNull(totals.sugar),
                                           !.fiber = PosOrNull(totals.fiber)]
       IN  logs' = logs \cup { ConsumptionRow(nextLogId, u, NewMealId, lmPage.createMealName,
                                              nutritionData, consumedDate) }
    /\ nextLogId' = nextLogId + 1
    /\ lmPage' = NoPage
    /\ lastOp' = Op("LogMeal.handleSaveAndLog", u, "ok", FALSE)
    /\ UNCHANGED <<meals, meal_foods, saveRest>>

NextSave ==
    \/ LogMeal_mountCreate
    \/ \E v \in CreateMealNames : LogMeal_setCreateMealName(v)
    \/ \E f \in FoodIds : LogMeal_addExtraFood(f)
    \/ \E n \in 1..MaxMealRows, q \in CreateQuantities : LogMeal_updateCreateMealFoodQuantity(n, q)
    \/ \E u \in Editors : LogMeal_handleSaveAndLog_meal(u)
    \/ \E u \in Editors : LogMeal_handleSaveAndLog_mealFoods(u)
    \/ \E u \in Editors, d \in MealLogDates : LogMeal_handleSaveAndLog_log(u, d)
    \/ \E i \in EditedIngredients, form \in IngredientChoices : EditIngredient_handleSubmit(i, form)
    \/ \E f \in FoodIds : EditFood_mount(f)
    \/ EditFood_handleSubmit
    \/ \E u \in Editors, id \in 1..MaxMealLogs : Logs_handleDelete_entry(u, id)

SpecSave == InitLog /\ [][NextSave]_vars

C18_NoPartialSave ==
    [][(lastOp'.op \in {"EditMeal.handleSubmit", "AddMeal.handleSubmit"}
           /\ lastOp'.result = "error")
          => (meals' = meals /\ meal_foods' = meal_foods)]_vars

----------------------------------------------------------------------------
(* History in two tabs of one account: initializeHistory, one database
   request per step, next to the writes of the Logs and LogMeal pages
   (SpecConc) *)

Tabs == { "t1", "t2" }

\* the account both tabs are signed in to
TabUser == "u1"

\* a tab before initializeHistory has run
TabIdle ==
    [pc |-> "purge", purged |-> FALSE, materialized |-> FALSE, goal |-> DefaultGoals,
     dates |-> {}, date |-> 0, dayConsumption |-> {},
     uniqueDates |-> {}, failed |-> {}, logged |-> FALSE]

\* createMissingSnapshots: the date the for loop takes next
NextDate(dates) == CHOOSE x \in dates : \A y \in dates : x <= y

concRest == <<today, tod, goals, ingredients, foods, food_ingredients, meals, meal_foods, efPage, emPage,
             lmPage, amPage, afPage, nOut, sgModal, multVars>>

\* initializeHistory, first request: rpc('delete_old_nutrition_snapshots')
History_purge(t) ==
    /\ hist[t].pc = "purge"
    /\ snaps' = delete_old_nutrition_snapshots(snaps, today)
    /\ hist' = [hist EXCEPT ![t].pc = "goals", ![t].purged = TRUE]
    /\ lastOp' = OtherOp
    /\ UNCHANGED <<logs, nextLogId, historyPage, concRest>>

\* createMissingSnapshots, first request: the goals of the user
History_readGoals(t) ==
    /\ hist[t].pc = "goals"
    /\ hist' = [hist EXCEPT ![t].pc = "dates", ![t].goal = currentGoals(TabUser)]
    /\ lastOp' = OtherOp
    /\ UNCHANGED <<logs, nextLogId, snaps, historyPage, concRest>>

\* createMissingSnapshots, second request: the dates with entries; without
\* any the function returns
History_readDates(t) ==
    /\ hist[t].pc = "dates"
    /\ LET dates == uniqueDates(TabUser, today)
       IN  hist' = [hist EXCEPT ![t].dates = dates, ![t].uniqueDates = dates,
                                ![t].pc = IF dates = {} THEN "fetch" ELSE "day",
                                ![t].materialized = (dates = {})]
    /\ lastOp' = OtherOp
    /\ UNCHANGED <<logs, nextLogId, snaps, historyPage, concRest>>

\* createMissingSnapshots, in the loop: the entries of the date
History_readDay(t) ==
    /\ hist[t].pc = "day"
    /\ LET date == NextDate(hist[t].dates)
       IN  hist' = [hist EXCEPT ![t].date = date,
                                ![t].dayConsumption = dayConsumption(TabUser, date),
                                ![t].pc = "upsert"]
    /\ lastOp' = OtherOp
    /\ UNCHANGED <<logs, nextLogId, snaps, historyPage, concRest>>

\* createMissingSnapshots, in the loop: the upsert of the totals summed over
\* the entries that were read
History_upsert(t) ==
    /\ hist[t].pc = "upsert"
    /\ snaps' = upsert(snaps, TabUser, hist[t].date, hist[t].goal,
                       SumEntries(hist[t].dayConsumption))
    /\ LET rest == hist[t].dates \ {hist[t].date}
       IN  hist' = [hist EXCEPT ![t].dates = rest,
                                ![t].pc = IF rest = {} THEN "fetch" ELSE "day",
                                ![t].materialized = (rest = {})]
    /\ lastOp' = OtherOp
    /\ UNCHANGED <<logs, nextLogId, historyPage, concRest>>

\* initializeHistory, last request: fetchSnapshots
History_fetch(t) ==
    /\ hist[t].pc = "fetch"
    /\ shown' = [shown EXCEPT ![TabUser] = fetchSnapshots(snaps, TabUser)]
    /\ hist' = [hist EXCEPT ![t].pc = "done"]
    /\ lastOp' = OtherOp
    /\ UNCHANGED <<logs, nextLogId, snaps, editingId, editValues, concRest>>

InitConc ==
    /\ InitClock /\ InitMultIdle
    /\ ingredients = <<>> /\ foods = <<>> /\ food_ingredients = {}
    /\ meals = <<>> /\ meal_foods = {}
    /\ efPage = NoPage /\ emPage = NoPage /\ lmPage = NoPage
    /\ afPage = NoPage /\ amPage = NoPage /\ nOut = <<>> /\ sgModal = <<>>
    /\ InitHistoryEmpty
    /\ hist = [t \in Tabs |-> TabIdle]
    /\ logs = {} /\ nextLogId = 1
    /\ lastOp = OtherOp

NextConc ==
    \/ \E t \in Tabs : History_purge(t)
    \/ \E t \in Tabs : History_readGoals(t)
    \/ \E t \in Tabs : History_readDates(t)
    \/ \E t \in Tabs : History_readDay(t)
    \/ \E t \in Tabs : History_upsert(t)
    \/ \E t \in Tabs : History_fetch(t)
    \/ \E form \in ManualChoices, d \in MealLogDates :
           LogMeal_handleSubmit_manual(TabUser, form, d)
    \/ \E id \in 1..MaxLogs : Logs_handleDelete(TabUser, id)

SpecConc == InitConc /\ [][NextConc]_vars

\* C19: concurrent reconciliation loses no update.  When both tabs have
\* finished their pass and one of them has read the entries that now exist for
\* a date, the snapshot of that date holds the sum of these entries.
C19_NoLostUpdate ==
    (\A t \in Tabs : hist[t].pc = "done") =>
        \A d \in MealLogDates :
            (\E t \in Tabs : /\ hist[t].date = d
                             /\ hist[t].dayConsumption = dayConsumption(TabUser, d)
                             /\ hist[t].dayConsumption # {})
            => \E s \in snaps : /\ s.user_id = TabUser /\ s.log_date = d
                                /\ s.consumed = SumEntries(dayConsumption(TabUser, d))

\* C20: reconciliation order.  Within one initializeHistory the materialize
\* step runs first and the purge of expired snapshots after it: a tab whose
\* purge has run has completed its materialize step before.
C20_MaterializeBeforePurge ==
    \A t \in Tabs : hist[t].purged => hist[t].materialized

----------------------------------------------------------------------------
(* Deleting a meal or a food while entries logged from the meal exist
   (SpecDelete) *)

\* the rows of a table without the row of key id
Without(tbl, id) == [k \in DOMAIN tbl \ {id} |-> tbl[k]]

\* user_consumption after a deleted meal, were meal_id still a foreign key
\* ON DELETE CASCADE
user_consumption_afterMealDelete_Cascade(tbl, mealId) ==
    { l \in tbl : l.meal_id # mealId }

\* user_consumption after a deleted meal: the foreign key on meal_id is
\* dropped, the rows stay as they are
user_consumption_afterMealDelete(tbl, mealId) == tbl

\* meal_foods after a deleted food, were food_id not a foreign key
meal_foods_afterFoodDelete_Keep(tbl, foodId) == tbl

\* meal_foods after a deleted food: food_id REFERENCES foods ON DELETE CASCADE
meal_foods_afterFoodDelete(tbl, foodId) == { r \in tbl : r.food_id # foodId }

\* EditMeal.handleDelete: delete the meals row; its meal_foods rows go with it
EditMeal_handleDelete ==
    /\ emPage.open
    /\ emPage.id \in DOMAIN meals
    /\ meals' = Without(meals, emPage.id)
    /\ meal_foods' = { r \in meal_foods : r.meal_id # emPage.id }
    /\ logs' = user_consumption_afterMealDelete(logs, emPage.id)
    /\ emPage' = NoPage
    /\ lastOp' = Op("EditMeal.handleDelete", emPage.id, "ok", FALSE)
    /\ UNCHANGED <<ingredients, foods, food_ingredients, nextLogId, efPage, lmPage, logVars>>

\* EditFood.handleDelete: delete the foods row; its food_ingredients rows and
\* the meal_foods rows that name it go with it
EditFood_handleDelete ==
    /\ efPage.open
    /\ efPage.id \in DOMAIN foods
    /\ foods' = Without(foods, efPage.id)
    /\ food_ingredients' = { r \in food_ingredients : r.food_id # efPage.id }
    /\ meal_foods' = meal_foods_afterFoodDelete(meal_foods, efPage.id)
    /\ efPage' = NoPage
    /\ lastOp' = Op("EditFood.handleDelete", efPage.id, "ok", FALSE)
    /\ UNCHANGED <<ingredients, meals, logs, nextLogId, emPage, lmPage, logVars>>

NextDelete ==
    \/ \E m \in MealIds : LogMeal_selectMeal(m)
    \/ \E n \in EditedRows, q \in QuantityChoices : LogMeal_updateMealFoodQuantity(n, q)
    \/ \E u \in Users, d \in MealLogDates : LogMeal_handleSubmit_meal(u, d)
    \/ \E m \in MealIds : EditMeal_mount(m)
    \/ EditMeal_handleDelete
    \/ \E f \in FoodIds : EditFood_mount(f)
    \/ EditFood_handleDelete
    \/ \E i \in EditedIngredients, form \in IngredientChoices : EditIngredient_handleSubmit(i, form)

SpecDelete == InitLog /\ [][NextDelete]_vars

\* C21: deleting a meal deletes no entry of user_consumption.  Every entry
\* that exists before EditMeal.handleDelete exists after it with the same
\* name, six values and date, its meal_id kept or null, and the meal is gone.
C21_MealDeleteKeepsLog ==
    [][lastOp'.op = "EditMeal.handleDelete" =>
          /\ lastOp'.user \notin DOMAIN meals'
          /\ \A l \in logs : \E k \in logs' :
                 /\ k.id = l.id /\ k.user_id = l.user_id
                 /\ k.meal_name = l.meal_name /\ Six(k) = Six(l)
                 /\ k.consumed_date = l.consumed_date
                 /\ k.meal_id \in {l.meal_id, NoId}]_vars

\* C21 witness: a meal has just been deleted and an entry logged from it is stored
C21_Witness ==
    /\ lastOp.op = "EditMeal.handleDelete"
    /\ \E l \in logs : l.meal_id = lastOp.user /\ l.meal_id \notin DOMAIN meals

\* C30: deleting a food removes the meal_foods rows that name it from every
\* meal and leaves the six stored totals of every meal as they were.
C30_FoodDeleteKeepsMealTotals ==
    [][lastOp'.op = "EditFood.handleDelete" =>
          /\ lastOp'.user \notin DOMAIN foods'
          /\ \A r \in meal_foods' : r.food_id # lastOp'.user
          /\ \A r \in meal_foods : r.food_id # lastOp'.user => r \in meal_foods'
          /\ meals' = meals]_vars

\* C30 witness: a food of meal m1 has just been deleted; the meal has lost the
\* row and stores the totals it was saved with
C30_Witness ==
    /\ lastOp.op = "EditFood.handleDelete"
    /\ \E r \in MealFoods0 : r.meal_id = "m1" /\ r.food_id = lastOp.user
    /\ "m1" \in DOMAIN meals
    /\ \A r \in meal_foods : r.food_id # lastOp.user
    /\ Six(meals["m1"]) = Six(Meals0["m1"])

\* C22: a save does not reach the entities composed from the saved one.  A
\* save of an ingredient leaves the stored totals of every food and of every
\* meal as they were, and a save of a food leaves the stored totals of every
\* meal as they were.
C22_SaveDoesNotPropagate ==
    [][/\ ingredients' # ingredients =>
              /\ DOMAIN foods' = DOMAIN foods
              /\ \A f \in DOMAIN foods : Six(foods'[f]) = Six(foods[f])
              /\ meals' = meals
       /\ foods' # foods => meals' = meals]_vars

\* C22 witness: an ingredient was saved with other values and a food made of
\* it was saved again with other totals; the other food made of it and the
\* meal made of both still store the totals they were saved with
C22_Witness ==
    /\ Six(ingredients["i1"]) # Six(Ingredients0["i1"])
    /\ Six(foods["f1"]) # Six(Foods0["f1"])
    /\ Six(foods["f2"]) = Six(Foods0["f2"])
    /\ meals = Meals0

----------------------------------------------------------------------------
(* Logging a meal with adjusted quantities (SpecValidate) *)

\* what the user types into a quantity input of the selected meal: the input
\* carries min="0", so zero passes the form
LogQuantities == QuantityChoices \cup { R(0) }

NextValidate ==
    \/ \E m \in MealIds : LogMeal_selectMeal(m)
    \/ \E n \in 1..MaxMealRows, q \in LogQuantities : LogMeal_updateMealFoodQuantity(n, q)
    \/ \E u \in Users, d \in MealLogDates : LogMeal_handleSubmit_meal(u, d)
    \/ \E u \in Users, id \in 1..MaxMealLogs : Logs_handleDelete_entry(u, id)
    \/ \E i \in EditedIngredients, form \in IngredientChoices : EditIngredient_handleSubmit(i, form)
    \/ \E f \in FoodIds : EditFood_mount(f)
    \/ EditFood_handleSubmit

SpecValidate == InitLog /\ [][NextValidate]_vars

\* C23: logging validation.  A LogMeal.handleSubmit whose form holds a
\* quantity that is zero or negative fails and inserts no entry into
\* user_consumption.
C23_QuantityValidated ==
    [][(/\ lastOp'.op = "LogMeal.handleSubmit"
        /\ \E n \in 1..Len(lmPage.mealFoods) : ~RPos(lmPage.mealFoods[n].quantity))
       => (logs' = logs /\ lastOp'.result = "error")]_vars

----------------------------------------------------------------------------
(* Sugar and fiber through the composers (SpecOptional) *)

\* what the user types into EditIngredient: the fiber input left empty, or "0"
\* typed into it (fiber ? parseFloat(fiber) : null keeps the 0 of "0")
FiberChoices ==
    IngredientChoices \cup
    { [calories |-> R(200), protein |-> R(20), carbs |-> R(5), fat |-> R(8), fiber |-> R(0)] }

NextOptional ==
    \/ \E i \in EditedIngredients, form \in FiberChoices : EditIngredient_handleSubmit(i, form)
    \/ \E f \in FoodIds : EditFood_mount(f)
    \/ EditFood_handleSubmit
    \/ \E m \in MealIds : EditMeal_mount(m)
    \/ EditMeal_handleSubmit
    \/ \E m \in MealIds : LogMeal_selectMeal(m)
    \/ \E u \in Editors, d \in MealLogDates : LogMeal_handleSubmit_meal(u, d)

SpecOptional == InitLog /\ [][NextOptional]_vars

\* a stored sugar or fiber is absent or positive, never a stored 0
AbsentOrPositive(row) ==
    /\ (row.sugar = NULL \/ RPos(row.sugar))
    /\ (row.fiber = NULL \/ RPos(row.fiber))

\* C24: optional-nutrient output rule.  Every food, meal and entry of
\* user_consumption a composer has stored carries a sugar and a fiber that is
\* null when the accumulated total is 0 and the total otherwise: no stored
\* sugar or fiber is 0.
C24_OptionalNutrients ==
    /\ \A f \in DOMAIN foods : AbsentOrPositive(foods[f])
    /\ \A m \in DOMAIN meals : AbsentOrPositive(meals[m])
    /\ \A l \in logs : AbsentOrPositive(l)

----------------------------------------------------------------------------
(* createMissingSnapshots when a request of the loop fails (SpecFail) *)

\* the dates the user logs for: two dates inside the lookback window
PassDates == { Today0 - 6, Today0 - 1 }

\* a request of the loop that fails either resolves with { data: null, error }
\* or rejects, as the client is built
FailureOutcomes == { "returned", "thrown" }

\* the tab after a request for the date failed.  Returned: the result is not
\* examined (a null dayConsumption takes `continue`) and the loop goes on to
\* the next date.  Thrown: the catch of createMissingSnapshots logs the
\* exception and the function returns; initializeHistory goes on to
\* fetchSnapshots.
AfterFailure(tab, date, outcome) ==
    LET rest == tab.dates \ {date}
    IN  IF outcome = "returned"
        THEN [tab EXCEPT !.date = date, !.dates = rest,
                         !.failed = @ \cup {date},
                         !.pc = IF rest = {} THEN "fetch" ELSE "day",
                         !.materialized = (rest = {})]
        ELSE [tab EXCEPT !.date = date,
                         !.failed = @ \cup {date},
                         !.logged = TRUE,
                         !.pc = "fetch"]

\* createMissingSnapshots, in the loop: the select of the date's entries fails
History_readDay_fails(t, outcome) ==
    /\ hist[t].pc = "day"
    /\ hist' = [hist EXCEPT ![t] = AfterFailure(@, NextDate(@.dates), outcome)]
    /\ lastOp' = OtherOp
    /\ UNCHANGED <<logs, nextLogId, snaps, historyPage, concRest>>

\* createMissingSnapshots, in the loop: the upsert of the date fails
History_upsert_fails(t, outcome) ==
    /\ hist[t].pc = "upsert"
    /\ hist' = [hist EXCEPT ![t] = AfterFailure(@, @.date, outcome)]
    /\ lastOp' = OtherOp
    /\ UNCHANGED <<logs, nextLogId, snaps, historyPage, concRest>>

NextFail ==
    \/ \E t \in Tabs : History_purge(t)
    \/ \E t \in Tabs : History_readGoals(t)
    \/ \E t \in Tabs : History_readDates(t)
    \/ \E t \in Tabs : History_readDay(t)
    \/ \E t \in Tabs, o \in FailureOutcomes : History_readDay_fails(t, o)
    \/ \E t \in Tabs : History_upsert(t)
    \/ \E t \in Tabs, o \in FailureOutcomes : History_upsert_fails(t, o)
    \/ \E t \in Tabs : History_fetch(t)
    \/ \E form \in ManualChoices, d \in PassDates :
           LogMeal_handleSubmit_manual(TabUser, form, d)

SpecFail == InitConc /\ [][NextFail]_vars

\* C25: per-date failure isolation.  When a pass in which the request for a
\* date failed has finished, the snapshot of every other date the pass read
\* is written and the failure has been reported.
C25_FailureIsolated ==
    \A t \in Tabs :
        (hist[t].pc = "done" /\ hist[t].failed # {}) =>
            /\ hist[t].logged
            /\ \A d \in hist[t].uniqueDates \ hist[t].failed :
                   \E s \in snaps : s.user_id = TabUser /\ s.log_date = d

----------------------------------------------------------------------------
(* Further claims about the history subsystem (SpecHist) *)

\* C26: frame of a manual correction.  A saveEditing step leaves
\* user_consumption as it was, adds and removes no snapshot, leaves every
\* snapshot other than the edited one as it was, and leaves the edited
\* snapshot's user, date and six goal values as they were.
C26_SaveEditingFrame ==
    [][lastOp'.op = "saveEditing" =>
          /\ logs' = logs
          /\ { s.id : s \in snaps' } = { s.id : s \in snaps }
          /\ \A s \in snaps : \E t \in snaps' :
                 /\ t.id = s.id /\ t.user_id = s.user_id
                 /\ t.log_date = s.log_date /\ t.goal = s.goal
                 /\ (s.id # editingId[lastOp'.user] => t = s)]_vars

\* C26 witness: a correction has just been saved with typed values while
\* another snapshot and an entry of user_consumption exist
C26_Witness ==
    /\ lastOp.op = "saveEditing"
    /\ \E s \in snaps : s.consumed \in EditChoices
    /\ \E s \in snaps : s.consumed \notin EditChoices
    /\ logs # {}

----------------------------------------------------------------------------
(* SetGoalsModal.handleSave request by request in two tabs (SpecGoals) *)

\* handleSave, first request: .update({ is_active: false }).eq('user_id', user.id)
deactivateGoals(tbl, u) ==
    { [g EXCEPT !.is_active = IF g.user_id = u THEN FALSE ELSE g.is_active] : g \in tbl }

\* handleSave, second request: .insert({ ..., is_active: true })
insertGoal(tbl, u, form, id) ==
    tbl \cup { [id |-> id, user_id |-> u, calories |-> form.calories,
                protein |-> form.protein, carbs |-> form.carbs, fat |-> form.fat,
                is_active |-> TRUE] }

goalsRest == <<today, tod, logs, nextLogId, snaps, historyPage, ingredients, foods,
              food_ingredients, meals, meal_foods, efPage, emPage, lmPage, amPage,
              afPage, nOut, hist, multVars>>

\* the modal of tab t is submitted: the first request of handleSave
SetGoalsModal_handleSave_deactivate(t) ==
    /\ sgModal[t] = "idle"
    /\ Cardinality(GoalRows(TabUser)) + Cardinality({ x \in Tabs : sgModal[x] = "insert" })
           < MaxGoalRows
    /\ goals' = deactivateGoals(goals, TabUser)
    /\ sgModal' = [sgModal EXCEPT ![t] = "insert"]
    /\ lastOp' = OtherOp
    /\ UNCHANGED goalsRest

\* the second request of handleSave in tab t, then onSaved() and onClose()
SetGoalsModal_handleSave_insert(t, form) ==
    /\ sgModal[t] = "insert"
    /\ goals' = insertGoal(goals, TabUser, form, Cardinality(goals) + 1)
    /\ sgModal' = [sgModal EXCEPT ![t] = "idle"]
    /\ lastOp' = Op("SetGoalsModal.handleSave", TabUser, "ok", FALSE)
    /\ UNCHANGED goalsRest

\* the goal values typed into the modals
GoalForms ==
    GoalChoices \cup { [calories |-> R(2200), protein |-> R(150), carbs |-> R(250), fat |-> R(70)] }

InitGoals ==
    /\ InitClock /\ InitHistoryEmpty /\ InitMultIdle
    /\ ingredients = <<>> /\ foods = <<>> /\ food_ingredients = {}
    /\ meals = <<>> /\ meal_foods = {}
    /\ efPage = NoPage /\ emPage = NoPage /\ lmPage = NoPage
    /\ afPage = NoPage /\ amPage = NoPage /\ nOut = <<>> /\ hist = <<>>
    /\ sgModal = [t \in Tabs |-> "idle"]
    /\ logs = {} /\ nextLogId = 1
    /\ lastOp = OtherOp

NextGoals ==
    \/ \E t \in Tabs : SetGoalsModal_handleSave_deactivate(t)
    \/ \E t \in Tabs, form \in GoalForms : SetGoalsModal_handleSave_insert(t, form)
    \/ \E form \in ManualChoices, d \in LogDates : LogMeal_handleSubmit_manual(TabUser, form, d)
    \/ History_initializeHistory(TabUser)

SpecGoals == InitGoals /\ [][NextGoals]_vars

\* C27: single current goal.  Whatever the order in which the requests of the
\* goal saves of one user run, the user has at most one active row in
\* user_goals.
C27_SingleActiveGoal ==
    \A u \in Users : Cardinality({ g \in GoalRows(u) : g.is_active }) <= 1

\* C28: a manual correction does not survive reconciliation.  When a snapshot
\* of the user holds consumed totals other than the sum of the entries of its
\* date, and the date has an entry inside the lookback window, then after
\* initializeHistory of that user the snapshot of the date holds the sum of
\* the entries.
C28_CorrectionOverwritten ==
    [][lastOp'.op = "initializeHistory" =>
          \A s \in snaps :
              (/\ s.user_id = lastOp'.user
               /\ s.log_date \in uniqueDates(s.user_id, today)
               /\ s.consumed # SumEntries(dayConsumption(s.user_id, s.log_date)))
              => \E t \in snaps' :
                     /\ t.user_id = s.user_id /\ t.log_date = s.log_date
                     /\ t.consumed = SumEntries(dayConsumption(s.user_id, s.log_date))]_vars

\* C28 witness: initializeHistory has run right after a correction of the
\* same user was saved, and no snapshot holds the typed values any more while
\* the entries of the user are still there
C28_Witness ==
    /\ lastOp.op = "initializeHistory" /\ lastOp.result = "after saveEditing"
    /\ \A s \in snaps : s.user_id = lastOp.user => s.consumed \notin EditChoices
    /\ \E s \in snaps : /\ s.user_id = lastOp.user
                        /\ dayConsumption(s.user_id, s.log_date) # {}

\* C29: the purge is not scoped to the caller.  After initializeHistory of
\* one user no other user has a snapshot older than 90 days, and every
\* snapshot of any user that is at most 90 days old is still stored, under
\* the same id, user and date.
C29_PurgeEveryUser ==
    [][lastOp'.op = "initializeHistory" =>
          /\ \A t \in snaps' :
                 t.user_id # lastOp'.user => ~(t.log_date < today - PurgeDays)
          /\ \A s \in snaps :
                 ~(s.log_date < today - PurgeDays) =>
                     \E t \in snaps' : /\ t.id = s.id /\ t.user_id = s.user_id
                                       /\ t.log_date = s.log_date]_vars

\* C29 witness: initializeHistory of one user has run, the History page of
\* another user still lists a snapshot older than 90 days that the table no
\* longer holds, and a snapshot that is at most 90 days old is stored
C29_Witness ==
    /\ lastOp.op = "initializeHistory"
    /\ \E u \in Users \ {lastOp.user} : \E i \in 1..Len(shown[u]) :
           /\ shown[u][i].log_date < today - PurgeDays
           /\ \A s \in snaps : s.id # shown[u][i].id
    /\ \E s \in snaps : ~(s.log_date < today - PurgeDays)

====
